---- MODULE Spec2Model ----
(***************************************************************************)
(* DiondoDataReader (src/readers/DiondoDataReader.py): the reader of a     *)
(* Diondo scan, an XML metadata file plus a directory of RAW projection    *)
(* frames.  The model holds the file system the reader looks at, the       *)
(* reader object (metadata and full geometry), the thread pool of a        *)
(* parallel read in flight, and the outcome of the last completed call.    *)
(*                                                                         *)
(* Angles are rationals [num, den] in lowest terms (den > 0), so that      *)
(* np.linspace and the angle -> index conversion are computed, not         *)
(* approximated.  RAW files are byte strings holding little-endian uint16  *)
(* samples.                                                                *)
(***************************************************************************)
EXTENDS Integers, Sequences, FiniteSets, TLC

(* ------------------------------ bounds -------------------------------- *)
\* ProjectionCount of the XML file ranges over 1..MaxProjections.
MaxProjections == 4
\* The projection directory holds 0..MaxFiles RAW files.
MaxFiles == 5
\* ProjectionDimY and ProjectionDimX of the scans modelled.
PixelsV == 2
PixelsH == 2
\* multiprocessing.cpu_count() ranges over 1..MaxCpu.
MaxCpu == 4
\* Integer selections and tuple entries range over -MaxIndex..MaxIndex.
MaxIndex == 3
\* An angle-list selection holds 0..MaxSel angles.
MaxSel == 2

(* ------------------------- program constants -------------------------- *)
\* np.linspace(-90, 270, ...): first angle and (excluded) end angle.
LinspaceStart == -90
LinspaceStop == 270
\* angles / 360.0 * num_projections
FullTurn == 360
\* np.dtype(np.uint16).itemsize, the default dtype of read/read_centre_slice
ItemSize == 2
\* one byte holds 0..255
ByteBase == 256

(* ----------------------------- rationals ------------------------------ *)
Abs(x) == IF x < 0 THEN -x ELSE x

RECURSIVE Gcd(_, _)
Gcd(a, b) == IF b = 0 THEN a ELSE Gcd(b, a % b)

\* The rational n/d (d > 0) in lowest terms.
Frac(n, d) ==
    LET g == Gcd(Abs(n), d)
    IN  [num |-> n \div g, den |-> d \div g]


(* ------------------------------ helpers ------------------------------- *)
Max(a, b) == IF a >= b THEN a ELSE b
Min(a, b) == IF a <= b THEN a ELSE b

\* sorted(...): the names of S in ascending (lexicographic) order.
RECURSIVE Sorted(_)
Sorted(S) ==
    IF S = {} THEN <<>>
    ELSE LET m == CHOOSE x \in S : \A y \in S : x <= y
         IN  <<m>> \o Sorted(S \ {m})

\* seq[:-1]
DropLast(s) == IF Len(s) = 0 THEN s ELSE SubSeq(s, 1, Len(s) - 1)

\* Python / numpy indexing s[i] with a 0-based index: a negative index counts
\* from the end; outside [-len, len) it raises IndexError.
InRange(s, i) == -Len(s) <= i /\ i < Len(s)
PyIndex(s, i) == IF i < 0 THEN s[Len(s) + i + 1] ELSE s[i + 1]

(* ----------------------------- selections ----------------------------- *)
\* The argument `angles` of read / `selection` of set_angles:
\*   None, an int, a tuple (start, stop) or (start, stop, step), or a sequence
\*   of angle values in degrees.
SelNone == [kind |-> "none", ints |-> <<>>, angles |-> <<>>]
SelInt(i) == [kind |-> "int", ints |-> <<i>>, angles |-> <<>>]
SelTuple(t) == [kind |-> "tuple", ints |-> t, angles |-> <<>>]
SelAngles(as) == [kind |-> "angles", ints |-> <<>>, angles |-> as]

\* slice.indices(n) for an explicit start or stop bound and step > 0 or < 0:
\* a negative bound counts from the end, then the bound is clipped.
\* (the bound only wrapped, not clipped to the array)
SliceBoundUnclipped(b, step, n) == IF b < 0 THEN b + n ELSE b
SliceBound(b, step, n) ==
    LET lower == IF step > 0 THEN 0 ELSE -1
        upper == IF step > 0 THEN n ELSE n - 1
        w == IF b < 0 THEN b + n ELSE b
    IN  IF w < lower THEN lower ELSE IF w > upper THEN upper ELSE w

\* np.arange(n)[slice(start, stop, step)], step # 0
SliceOfArange(start, stop, step, n) ==
    LET lo == SliceBound(start, step, n)
        hi == SliceBound(stop, step, n)
        cnt == IF step > 0
               THEN (IF lo < hi THEN (hi - lo - 1) \div step + 1 ELSE 0)
               ELSE (IF hi < lo THEN (lo - hi - 1) \div (-step) + 1 ELSE 0)
    IN  [j \in 1..cnt |-> lo + (j - 1) * step]

\* np.round: to the nearest integer, a tie to the even neighbour (n/d, d > 0).
\* (astype(int) alone: truncation towards zero)
RoundTruncate(n, d) == IF n >= 0 THEN n \div d ELSE -((-n) \div d)
NpRound(n, d) ==
    LET q == n \div d
        r == n - q * d
    IN  IF 2 * r < d THEN q
        ELSE IF 2 * r > d THEN q + 1
        ELSE IF q % 2 = 0 THEN q ELSE q + 1

\* angles / 360.0 * num_projections, rounded, for one angle
AngleToIndex(a, n) == NpRound(a.num * n, a.den * FullTurn)

\* set_angles(selection): the resolved indices, or the error raised.
\* (selection None returns None: read never passes it on.)
set_angles(selection, num_projections) ==
    CASE selection.kind = "none" ->
           [status |-> "None", indices |-> <<>>]
      [] selection.kind = "tuple" ->
           LET t == selection.ints
               step == IF Len(t) = 3 THEN t[3] ELSE 1
           IN  IF step = 0
               THEN [status |-> "ValueError", indices |-> <<>>]
               ELSE [status |-> "ok",
                     indices |-> SliceOfArange(t[1], t[2], step, num_projections)]
      [] selection.kind = "int" ->
           [status |-> "ok", indices |-> <<selection.ints[1]>>]
      [] selection.kind = "angles" ->
           [status |-> "ok",
            indices |-> [k \in 1..Len(selection.angles) |->
                           AngleToIndex(selection.angles[k], num_projections)]]

(* ------------------------------ geometry ------------------------------ *)
\* np.linspace(start, stop, num, endpoint=False)
LinspaceWithEndpoint(start, stop, num) ==
    [i \in 1..num |->
        IF num = 1 THEN Frac(start, 1)
        ELSE Frac(start * (num - 1) + (i - 1) * (stop - start), num - 1)]
Linspace(start, stop, num) ==
    [i \in 1..num |-> Frac(start * num + (i - 1) * (stop - start), num)]

\* _setup_geometry: panel (num_pixels_h, num_pixels_v), labels
\* (angle, vertical, horizontal), angles in degrees.
SetupGeometry(meta) ==
    [panel |-> <<meta.num_pixels_h, meta.num_pixels_v>>,
     angles |-> Linspace(LinspaceStart, LinspaceStop, meta.num_projections)]

\* AcquisitionGeometry.shape for labels (angle, vertical, horizontal)
GeomShape(g) == <<Len(g.angles), g.panel[2], g.panel[1]>>

(* ------------------------------ RAW files ----------------------------- *)
\* The bytes of RAW file `name` of a v x h scan: sample e (0-based, row-major)
\* is the uint16 name * 256 + e, little-endian, so that every sample of the
\* directory is distinct.
FileBytes(name, v, h) ==
    [b \in 1..(v * h * ItemSize) |->
        IF b % ItemSize = 1 THEN ((b - 1) \div ItemSize) % ByteBase ELSE name]

\* np.fromfile(f, dtype=uint16, count) with f positioned at byte `offset`:
\* the whole samples left in the file, at most `count` of them (count < 0: all).
FromFile(bytes, offset, count) ==
    LET avail == Max(0, (Len(bytes) - offset) \div ItemSize)
        n == IF count < 0 THEN avail ELSE Min(count, avail)
    IN  [e \in 1..n |->
            bytes[offset + (e - 1) * ItemSize + 1]
            + ByteBase * bytes[offset + (e - 1) * ItemSize + 2]]

\* ndarray.reshape((height, width)), row-major
Reshape(flat, height, width) ==
    [r \in 1..height |-> [c \in 1..width |-> flat[(r - 1) * width + c]]]

\* _read_single_raw_file
ReadSingleRawFile(bytes, height, width) ==
    Reshape(FromFile(bytes, 0, -1), height, width)

\* .astype("float32") / np.float32(...) of uint16 samples: every uint16 value
\* is a float32, the cast keeps the value.
AsFloat32(a) == a

(* ------------------------------- state -------------------------------- *)
VARIABLES
    disk,     \* the file system: the XML file and the projection directory
    reader,   \* the DiondoDataReader object (state "none" before __init__)
    full_geometry,  \* reader.full_geometry
    arg,      \* the selection a client passes to set_angles directly
    pool,     \* the joblib thread pool of a parallel read in flight
    last,     \* the last completed call: its arguments and outcome
    prev      \* the completed call before it, when it had the same arguments

vars == <<disk, reader, full_geometry, arg, pool, last, prev>>

NoGeom == [panel |-> <<0, 0>>, angles |-> <<>>]
NoMeta == [num_projections |-> 0, num_pixels_h |-> 0, num_pixels_v |-> 0]
NoPool == [active |-> FALSE, args |-> SelNone, indices |-> <<>>, files |-> <<>>,
           n_threads |-> 0, next |-> 1, running |-> {}, done |-> <<>>]
Call(op, args, fread, status, array, angles, indices) ==
    [op |-> op, args |-> args, fread |-> fread, status |-> status,
     array |-> array, angles |-> angles, indices |-> indices]
NoCall == Call("none", SelNone, FALSE, "none", <<>>, <<>>, <<>>)

\* glob.glob(os.path.join(projection_path, "*.raw")): the names, in no order
Glob(d) == IF d.dir_exists THEN DOMAIN d.raw ELSE {}

\* sorted(glob(...))[:-1]
KeepLastFile(d) == Sorted(Glob(d))
ActiveFiles(d) == DropLast(Sorted(Glob(d)))

\* The same call as the last completed one?
SameCall(op, args, fread) ==
    last.op = op /\ last.args = args /\ last.fread = fread

\* What a completed call leaves in `last` and `prev`: `prev` keeps the call
\* before it only when that was the same call, to compare the two outcomes.
Complete(c) ==
    /\ prev' = IF SameCall(c.op, c.args, c.fread) THEN last ELSE NoCall
    /\ last' = c

Init ==
    /\ \E n \in 1..MaxProjections, m \in 0..MaxFiles,
          xf \in BOOLEAN, de \in BOOLEAN :
          disk = [xml_is_file |-> xf,
                  xml |-> [num_projections |-> n,
                           num_pixels_h |-> PixelsH,
                           num_pixels_v |-> PixelsV],
                  dir_exists |-> de,
                  raw |-> IF de THEN [f \in 1..m |-> FileBytes(f, PixelsV, PixelsH)]
                          ELSE <<>>]
    /\ reader = [state |-> "none", meta |-> NoMeta,
                 raw_files |-> [set |-> FALSE, v |-> <<>>],
                 indices_none |-> FALSE]
    /\ full_geometry = NoGeom
    /\ arg = SelNone
    /\ pool = NoPool
    /\ last = NoCall
    /\ prev = NoCall

(* --------------------------- __init__ / set_up ------------------------ *)
\* read_metadata: FileNotFoundError unless xml_file is an existing file
ReadMetadataFails(d) == ~d.xml_is_file

\* DiondoDataReader(xml_file, projection_path): set_up = read_metadata then
\* _setup_geometry.
Construct ==
    /\ reader.state = "none"
    /\ ~pool.active
    /\ IF ReadMetadataFails(disk)
       THEN /\ Complete(Call("init", SelNone, FALSE, "FileNotFoundError",
                             <<>>, <<>>, <<>>))
            /\ UNCHANGED <<reader, full_geometry>>
       ELSE /\ reader' = [reader EXCEPT !.state = "ready", !.meta = disk.xml]
            /\ full_geometry' = SetupGeometry(disk.xml)
            /\ Complete(Call("init", SelNone, FALSE, "ok", <<>>,
                             SetupGeometry(disk.xml).angles, <<>>))
    /\ UNCHANGED <<disk, arg, pool>>

(* -------------------------------- read -------------------------------- *)
\* Lines 108-120 of read: the active files, the resolved indices and the
\* selected files, or the error raised.
ReadPrepare(args, d, num_projections) ==
    LET raw_files == ActiveFiles(d)
        res == IF args.kind = "none"
               THEN [status |-> "ok",
                     indices |-> [k \in 1..Len(raw_files) |-> k - 1]]
               ELSE set_angles(args, num_projections)
    IN  IF Len(raw_files) = 0
        THEN [status |-> "FileNotFoundError", indices |-> <<>>, files |-> <<>>]
        ELSE IF res.status # "ok"
        THEN [status |-> res.status, indices |-> <<>>, files |-> <<>>]
        ELSE IF \E k \in 1..Len(res.indices) : ~InRange(raw_files, res.indices[k])
        THEN [status |-> "IndexError", indices |-> res.indices, files |-> <<>>]
        ELSE [status |-> "ok", indices |-> res.indices,
              files |-> [k \in 1..Len(res.indices) |->
                            PyIndex(raw_files, res.indices[k])]]

\* geom = self.full_geometry.copy(): the object the name geom is bound to,
\* "copy" a new object, "full" the reader's own.
GeomAlias(src) == src
GeomCopy(src) == "copy"

\* Lines 139-143 of read, given the stacked frames: the geometry subset and
\* the AcquisitionData returned, or the error raised.  full_geometry.angles
\* [indices] is numpy indexing with an index array.
ReadReturn(args, fread, frames, indices) ==
    LET geom == GeomCopy("full")
        objs == [full |-> full_geometry, copy |-> full_geometry]
    IN  IF \E k \in 1..Len(indices) : ~InRange(full_geometry.angles, indices[k])
        THEN /\ Complete(Call("read", args, fread, "IndexError", <<>>, <<>>, indices))
             /\ UNCHANGED full_geometry
        ELSE LET subset == [k \in 1..Len(indices) |->
                               PyIndex(full_geometry.angles, indices[k])]
                 after == [objs EXCEPT ![geom].angles = subset]
             IN  /\ full_geometry' = after.full
                 /\ Complete(Call("read", args, fread, "ok", AsFloat32(frames),
                                  after[geom].angles, indices))

\* read(angles, fread=False): the frames are read in selection order.
ReadSequential(args) ==
    /\ reader.state = "ready"
    /\ ~pool.active
    /\ LET p == ReadPrepare(args, disk, reader.meta.num_projections)
       IN  IF p.status # "ok"
           THEN /\ Complete(Call("read", args, FALSE, p.status, <<>>, <<>>, p.indices))
                /\ UNCHANGED full_geometry
           ELSE ReadReturn(args, FALSE,
                    [k \in 1..Len(p.files) |->
                        ReadSingleRawFile(disk.raw[p.files[k]],
                            reader.meta.num_pixels_v, reader.meta.num_pixels_h)],
                    p.indices)
    /\ UNCHANGED <<disk, reader, arg, pool>>

\* read(angles, fread=True) up to the Parallel(...) call: one task per
\* selected file, n_threads = max(1, cpu_count // 2) worker threads.  While
\* the pool runs, `last` keeps the previous call only if it was this call.
ReadParallelStart(args, cpu_count) ==
    /\ reader.state = "ready"
    /\ ~pool.active
    /\ LET p == ReadPrepare(args, disk, reader.meta.num_projections)
       IN  IF p.status # "ok"
           THEN /\ Complete(Call("read", args, TRUE, p.status, <<>>, <<>>, p.indices))
                /\ UNCHANGED pool
           ELSE /\ pool' = [active |-> TRUE, args |-> args, indices |-> p.indices,
                            files |-> p.files,
                            n_threads |-> Max(1, cpu_count \div 2),
                            next |-> 1, running |-> {}, done |-> <<>>]
                /\ last' = IF SameCall("read", args, TRUE) THEN last ELSE NoCall
                /\ prev' = NoCall
    /\ UNCHANGED <<disk, reader, full_geometry, arg>>

\* A free worker thread takes the next task, in submission order.
WorkerTake ==
    /\ pool.active
    /\ pool.next <= Len(pool.files)
    /\ Cardinality(pool.running) < pool.n_threads
    /\ pool' = [pool EXCEPT !.running = @ \cup {pool.next}, !.next = @ + 1]
    /\ UNCHANGED <<disk, reader, full_geometry, arg, last, prev>>

\* A worker thread finishes its task: _read_single_raw_file returns.
WorkerFinish(t) ==
    /\ pool.active
    /\ t \in pool.running
    /\ pool' = [pool EXCEPT
                  !.running = @ \ {t},
                  !.done = Append(@, [task |-> t,
                              frame |-> ReadSingleRawFile(disk.raw[pool.files[t]],
                                  reader.meta.num_pixels_v, reader.meta.num_pixels_h)])]
    /\ UNCHANGED <<disk, reader, full_geometry, arg, last, prev>>

\* The list Parallel(...) returns: one result per task.  `done` holds the
\* results in completion order.
AsCompleted(done) == [k \in 1..Len(done) |-> done[k].frame]
Gather(done) ==
    [k \in 1..Len(done) |->
        (CHOOSE r \in {done[j] : j \in 1..Len(done)} : r.task = k).frame]

\* All tasks are done: np.stack of the results, then the geometry subset.
\* np.stack of an empty list raises ValueError.
ReadParallelJoin ==
    /\ pool.active
    /\ pool.next > Len(pool.files)
    /\ pool.running = {}
    /\ IF Len(pool.files) = 0
       THEN /\ Complete(Call("read", pool.args, TRUE, "ValueError", <<>>, <<>>,
                             pool.indices))
            /\ UNCHANGED full_geometry
       ELSE ReadReturn(pool.args, TRUE, Gather(pool.done), pool.indices)
    /\ pool' = NoPool
    /\ UNCHANGED <<disk, reader, arg>>

(* -------------------------- read_centre_slice ------------------------- *)
\* central_slices after the loop over the active files: row i (0-based) is
\* the scanline read from file i, the rows no file reached stay zero.
CentreRows(raw_files, d, shape) ==
    LET central_index == shape[2] \div 2
        offset == central_index * shape[3] * ItemSize
    IN  [i \in 1..shape[1] |->
            IF i <= Len(raw_files)
            THEN FromFile(d.raw[raw_files[i]], offset, shape[3])
            ELSE [c \in 1..shape[3] |-> 0]]

\* read_centre_slice(): central_slices[i] with i >= shape[0] raises IndexError.
ReadCentreSlice ==
    /\ reader.state = "ready"
    /\ ~pool.active
    /\ LET shape == GeomShape(full_geometry)
           raw_files == ActiveFiles(disk)
       IN  /\ reader' = [reader EXCEPT !.raw_files = [set |-> TRUE, v |-> raw_files]]
           /\ IF Len(raw_files) > shape[1]
              THEN Complete(Call("read_centre_slice", SelNone, FALSE, "IndexError",
                                 <<>>, <<>>, <<>>))
              ELSE Complete(Call("read_centre_slice", SelNone, FALSE, "ok",
                                 AsFloat32(CentreRows(raw_files, disk, shape)),
                                 full_geometry.angles, <<>>))
    /\ UNCHANGED <<disk, full_geometry, arg, pool>>

(* ------------------------------ set_angles ---------------------------- *)
\* reader.set_angles(selection), called directly
SetAngles(sel) ==
    /\ reader.state = "ready"
    /\ ~pool.active
    /\ LET r == set_angles(sel, reader.meta.num_projections)
       IN  Complete(Call("set_angles", sel, FALSE, r.status, <<>>, <<>>, r.indices))
    /\ reader' = IF sel.kind = "none"
                 THEN [reader EXCEPT !.indices_none = TRUE]
                 ELSE reader
    /\ UNCHANGED <<disk, full_geometry, arg, pool>>

(* ------------------------------ arguments ----------------------------- *)
IndexRange == (-MaxIndex)..MaxIndex
Steps == {-2, -1, 0, 2}

SeqsUpTo(S, m) == UNION {[1..j -> S] : j \in 0..m}

TupleSelections ==
    {SelTuple(<<a, b>>) : a, b \in IndexRange}
    \cup {SelTuple(<<a, b, c>>) : a, b \in IndexRange, c \in Steps}

\* The angles whose fractional index is a multiple of 1/4, from -90 to 270
\* degrees.
AngleGrid(n) == {Frac(FullTurn * k, 4 * n) : k \in (-n)..(3 * n)}

\* The selections set_angles is called with.
Selections(n) ==
    {SelNone} \cup {SelInt(i) : i \in IndexRange} \cup TupleSelections
    \cup {SelAngles(s) : s \in SeqsUpTo(AngleGrid(n), MaxSel)}

\* The angles of the full geometry and the quarter turns.
ReadAngleGrid(n) ==
    {Linspace(LinspaceStart, LinspaceStop, n)[i] : i \in 1..n}
    \cup {Frac(FullTurn * k, 4) : k \in -1..3}

\* The selections read is called with: all files, an index, ascending and
\* descending ranges (in and out of range), one angle, or two angles of the
\* full geometry.
ReadSelections(n) ==
    {SelNone} \cup {SelInt(i) : i \in IndexRange}
    \cup {SelTuple(<<a, b>>) : a \in {-1, 0, 1}, b \in {2, MaxIndex + 1}}
    \cup {SelTuple(<<MaxIndex, 0, -1>>), SelTuple(<<0, MaxIndex + 1, 2>>),
          SelTuple(<<-1, 0, -2>>), SelTuple(<<1, 0>>), SelTuple(<<0, 1, 0>>)}
    \cup {SelAngles(<<a>>) : a \in ReadAngleGrid(n)}
    \cup {SelAngles(<<a, b>>) :
             a, b \in {Linspace(LinspaceStart, LinspaceStop, n)[i] : i \in 1..n}}

(* --------------------------- specification ---------------------------- *)
\* The calls a client makes on a set-up reader, with every argument drawn.
CallReadSequential ==
    /\ reader.state = "ready"
    /\ \E args \in ReadSelections(reader.meta.num_projections) :
          ReadSequential(args)

CallReadParallel ==
    /\ reader.state = "ready"
    /\ \E args \in ReadSelections(reader.meta.num_projections),
          cpu_count \in 1..MaxCpu :
          ReadParallelStart(args, cpu_count)

Next ==
    \/ Construct
    \/ CallReadSequential
    \/ CallReadParallel
    \/ WorkerTake
    \/ \E t \in pool.running : WorkerFinish(t)
    \/ ReadParallelJoin
    \/ ReadCentreSlice

Spec == Init /\ [][Next]_vars

\* set_angles as a function of its argument: a reader of a scan of
\* 1..MaxProjections projections, and one selection passed to set_angles.
InitSel ==
    /\ \E n \in 1..MaxProjections :
          /\ disk = [xml_is_file |-> TRUE,
                     xml |-> [num_projections |-> n,
                              num_pixels_h |-> PixelsH,
                              num_pixels_v |-> PixelsV],
                     dir_exists |-> TRUE,
                     raw |-> [f \in 1..(n + 1) |-> FileBytes(f, PixelsV, PixelsH)]]
          /\ arg \in Selections(n)
    /\ reader = [state |-> "none", meta |-> NoMeta,
                 raw_files |-> [set |-> FALSE, v |-> <<>>],
                 indices_none |-> FALSE]
    /\ full_geometry = NoGeom
    /\ pool = NoPool
    /\ last = NoCall
    /\ prev = NoCall

NextSel ==
    \/ Construct
    \/ SetAngles(arg)

SpecSel == InitSel /\ [][NextSel]_vars

(* ======================================================================= *)
(*                               properties                                *)
(* ======================================================================= *)
\* The frame a v x h RAW file `name` holds: sample (r, c) is
\* name * 256 + (r - 1) * h + (c - 1).
ExpectedFrame(name, v, h) ==
    [r \in 1..v |-> [c \in 1..h |-> name * ByteBase + (r - 1) * h + (c - 1)]]

\* The i-th name of the directory in ascending order, without sorting.
NthName(d, i) ==
    CHOOSE f \in Glob(d) : Cardinality({g \in Glob(d) : g < f}) = i - 1

NumFiles == Cardinality(Glob(disk))
NumProjections == disk.xml.num_projections

\* s[i] for a 0-based index that may be negative (Python's reading of it)
At(s, i) == s[IF i < 0 THEN Len(s) + i + 1 ELSE i + 1]

(* ---- C1 ---- *)
\* C1: in a successful read, sequential or parallel, frame k is the content
\* of the file raw_files[indices[k]] and angle k is
\* full_geometry.angles[indices[k]]; there are as many frames as angles; and
\* the results a thread pool hands back, whatever the order the workers
\* finished in, are the frames in selection order.
C1_ReadTracksSelection ==
    /\ (last.op = "read" /\ last.status = "ok") =>
          /\ Len(last.array) = Len(last.indices)
          /\ Len(last.angles) = Len(last.array)
          /\ \A k \in 1..Len(last.indices) :
                /\ last.indices[k] >= -(NumFiles - 1)
                /\ last.indices[k] < NumFiles - 1
                /\ last.array[k] =
                      ExpectedFrame(
                          IF last.indices[k] < 0
                          THEN NthName(disk, NumFiles + last.indices[k])
                          ELSE NthName(disk, last.indices[k] + 1),
                          PixelsV, PixelsH)
                /\ last.angles[k] = At(full_geometry.angles, last.indices[k])
    /\ (pool.active /\ pool.next > Len(pool.files) /\ pool.running = {}) =>
          Gather(pool.done) =
             [k \in 1..Len(pool.files) |->
                 ExpectedFrame(pool.files[k], PixelsV, PixelsH)]

\* A parallel read whose workers finished out of submission order, all done.
C1_Witness ==
    /\ pool.active
    /\ pool.next > Len(pool.files)
    /\ pool.running = {}
    /\ Len(pool.done) >= 2
    /\ \E i, j \in 1..Len(pool.done) : i < j /\ pool.done[i].task > pool.done[j].task

(* ---- C2 ---- *)
\* C2: with n >= 2 RAW files in the directory, read(angles=None) returns
\* exactly n - 1 frames: every file but the last, in ascending name order,
\* whatever num_projections is.
C2_ReadAllReturnsAllButLast ==
    (last.op = "read" /\ last.args = SelNone /\ NumFiles >= 2) =>
        /\ last.status = "ok"
        /\ Len(last.array) = NumFiles - 1
        /\ \A k \in 1..(NumFiles - 1) :
              last.array[k] = ExpectedFrame(NthName(disk, k), PixelsV, PixelsH)

(* ---- C3 ---- *)
\* start, start + step, ... taken literally: the values start + j * step
\* (j = 0, 1, ...) that lie below stop and in [0, n), in that order.
LiteralRange(start, stop, step, n) ==
    LET J == {j \in 0..(2 * MaxIndex + n) :
                 /\ start + j * step < stop
                 /\ 0 <= start + j * step
                 /\ start + j * step < n}
    IN  [i \in 1..Cardinality(J) |->
            start + step * (CHOOSE j \in J : Cardinality({x \in J : x < j}) = i - 1)]

TupleStep(t) == IF Len(t) = 3 THEN t[3] ELSE 1

\* C3 as claimed: every tuple (start, stop[, step]) resolves to the literal
\* sequence start, start + step, ... below stop within [0, num_projections),
\* and an integer i to [i].
C3_TupleLiteral ==
    /\ (last.op = "set_angles" /\ last.args.kind = "tuple"
          /\ TupleStep(last.args.ints) # 0) =>
          /\ last.status = "ok"
          /\ last.indices = LiteralRange(last.args.ints[1], last.args.ints[2],
                                TupleStep(last.args.ints), NumProjections)
    /\ (last.op = "set_angles" /\ last.args.kind = "int") =>
          last.status = "ok" /\ last.indices = <<last.args.ints[1]>>

\* C3 amended: a tuple with start >= 0, stop >= 0 and step >= 1 resolves to
\* start, start + step, ... below min(stop, num_projections); every tuple with
\* a step other than 0 resolves to indices in [0, num_projections); an
\* integer i resolves to [i].
C3_TupleNonNegativeLiteral ==
    /\ (last.op = "set_angles" /\ last.args.kind = "tuple"
          /\ TupleStep(last.args.ints) # 0) =>
          /\ last.status = "ok"
          /\ \A k \in 1..Len(last.indices) :
                0 <= last.indices[k] /\ last.indices[k] < NumProjections
          /\ (last.args.ints[1] >= 0 /\ last.args.ints[2] >= 0
                /\ TupleStep(last.args.ints) >= 1) =>
                last.indices = LiteralRange(last.args.ints[1], last.args.ints[2],
                                   TupleStep(last.args.ints), NumProjections)
    /\ (last.op = "set_angles" /\ last.args.kind = "int") =>
          last.status = "ok" /\ last.indices = <<last.args.ints[1]>>

\* A (start, stop, step) tuple with step 2 that resolves to two indices or more.
C3_Witness ==
    /\ last.op = "set_angles"
    /\ last.args.kind = "tuple"
    /\ Len(last.args.ints) = 3
    /\ last.args.ints[1] >= 0
    /\ last.args.ints[3] = 2
    /\ Len(last.indices) >= 2

(* ---- C4 ---- *)
\* C4: an angle-list selection resolves angle a to an integer nearest to
\* a / 360 * num_projections (at most 1/2 away from it), ties included; and
\* [0.0, 90.0] with 360 projections resolves to [0, 90].
C4_AngleNearestIndex ==
    /\ (last.op = "set_angles" /\ last.args.kind = "angles") =>
          /\ last.status = "ok"
          /\ Len(last.indices) = Len(last.args.angles)
          /\ \A k \in 1..Len(last.indices) :
                LET a == last.args.angles[k]
                    twice == 2 * (last.indices[k] * a.den * FullTurn
                                    - a.num * NumProjections)
                IN  Abs(twice) <= a.den * FullTurn
    /\ set_angles(SelAngles(<<Frac(0, 1), Frac(90, 1)>>), FullTurn).indices = <<0, 90>>

\* An angle list resolved that holds an angle exactly halfway between two
\* indices.
C4_Witness ==
    /\ last.op = "set_angles"
    /\ last.args.kind = "angles"
    /\ last.status = "ok"
    /\ \E k \in 1..Len(last.args.angles) :
          LET a == last.args.angles[k]
          IN  /\ (2 * a.num * NumProjections) % (a.den * FullTurn) = 0
              /\ (a.num * NumProjections) % (a.den * FullTurn) # 0

(* ---- C5 ---- *)
\* C5: read_centre_slice returns num_projections rows of num_pixels_h
\* samples, and row i is the centre scanline (row num_pixels_v // 2) of the
\* i-th active RAW file: every row is filled from a file, and every active
\* file has a row.
C5_CentreSliceRowPerFile ==
    (last.op = "read_centre_slice") =>
        /\ last.status = "ok"
        /\ Len(last.array) = NumProjections
        /\ Len(ActiveFiles(disk)) = NumProjections
        /\ \A i \in 1..NumProjections :
              last.array[i] =
                 [c \in 1..PixelsH |->
                     NthName(disk, i) * ByteBase
                     + (PixelsV \div 2) * PixelsH + (c - 1)]

(* ---- C6 ---- *)
\* C6: constructing the reader on an xml_file that is no existing file raises
\* FileNotFoundError and yields no reader; read on a projection directory
\* that is missing, empty or holds a single RAW file raises
\* FileNotFoundError and returns nothing.
C6_ConfigurationErrorsAreFileNotFound ==
    /\ (last.op = "init" /\ ~disk.xml_is_file) =>
          last.status = "FileNotFoundError" /\ reader.state = "none"
    /\ ~disk.xml_is_file => reader.state = "none"
    /\ (last.op = "read" /\ NumFiles <= 1) =>
          /\ last.status = "FileNotFoundError"
          /\ last.array = <<>>
          /\ last.angles = <<>>

\* A read of a directory that holds exactly one RAW file.
C6_Witness ==
    /\ last.op = "read"
    /\ disk.dir_exists
    /\ NumFiles = 1
    /\ last.status = "FileNotFoundError"

(* ---- C7 ---- *)
\* C7: once set up, the full geometry has num_projections angles, angle i
\* (0-based) is -90 + i * 360 / num_projections, all lie in [-90, 270) at a
\* spacing of 360 / num_projections; and in a read of all files angle i is
\* paired with the i-th RAW file.
C7_FullAngles ==
    reader.state = "ready" =>
        LET a == full_geometry.angles
            n == reader.meta.num_projections
        IN  /\ n = NumProjections
            /\ Len(a) = n
            /\ \A i \in 1..Len(a) :
                  /\ a[i].den > 0
                  /\ a[i].num * n = (LinspaceStart * n + (i - 1) * FullTurn) * a[i].den
                  /\ LinspaceStart * a[i].den <= a[i].num
                  /\ a[i].num < LinspaceStop * a[i].den
            /\ \A i \in 1..(Len(a) - 1) :
                  (a[i + 1].num * a[i].den - a[i].num * a[i + 1].den) * n
                     = FullTurn * a[i].den * a[i + 1].den
            /\ (last.op = "read" /\ last.args = SelNone /\ last.status = "ok") =>
                  \A k \in 1..Len(last.array) :
                     /\ last.array[k] = ExpectedFrame(NthName(disk, k), PixelsV, PixelsH)
                     /\ last.angles[k] = a[k]

\* A set-up reader of three projections or more that has read all its files.
C7_Witness ==
    /\ reader.state = "ready"
    /\ Len(full_geometry.angles) >= 3
    /\ last.op = "read"
    /\ last.args = SelNone
    /\ last.status = "ok"
    /\ Len(last.array) >= 2

(* ---- C8 ---- *)
\* C8: a read called again with the same arguments returns the same outcome,
\* the same array and the same geometry angles; a read leaves full_geometry
\* as _setup_geometry built it.
C8_ReadIdempotent ==
    /\ (last.op = "read" /\ prev.op = "read") =>
          /\ prev.args = last.args /\ prev.fread = last.fread
          /\ last.status = prev.status
          /\ last.array = prev.array
          /\ last.angles = prev.angles
    /\ last.op = "read" => full_geometry = SetupGeometry(disk.xml)

\* A parallel read of two frames or more, repeated successfully.
C8_Witness ==
    /\ last.op = "read"
    /\ prev.op = "read"
    /\ last.fread
    /\ last.status = "ok"
    /\ Len(last.array) >= 2

(* ---- C9 ---- *)
\* C9: a read whose resolved indices include one outside
\* [0, number of active files), negative ones included, fails with
\* IndexError and returns no data.
C9_OutOfRangeIndexFails ==
    (/\ last.op = "read"
     /\ Len(ActiveFiles(disk)) > 0
     /\ \E k \in 1..Len(last.indices) :
           last.indices[k] < 0 \/ last.indices[k] >= Len(ActiveFiles(disk))) =>
        last.status = "IndexError" /\ last.array = <<>>

(* ---- C10 ---- *)
\* C10: a successful read of a list of angles, each one an angle of the full
\* geometry, returns a geometry whose angle k is the requested angle k.
C10_AngleListRoundTrip ==
    (/\ last.op = "read"
     /\ last.args.kind = "angles"
     /\ last.status = "ok"
     /\ \A k \in 1..Len(last.args.angles) :
           \E i \in 1..Len(full_geometry.angles) :
              full_geometry.angles[i] = last.args.angles[k]) =>
        /\ Len(last.angles) = Len(last.args.angles)
        /\ \A k \in 1..Len(last.args.angles) : last.angles[k] = last.args.angles[k]

====
